---- MODULE Spec2Model ----
(***************************************************************************)
(* A model of aws-iam-allactions.py: the two statement classifiers         *)
(* (is_action_wildcard, is_many_actions) and the scan driver (main).       *)
(*                                                                         *)
(* Strings the code inspects character by character (resource ARNs, the    *)
(* permission-issue lines that are sorted) are sequences of code points.   *)
(* Action identifiers are only ever compared for equality with "*", so     *)
(* they are TLA+ strings.                                                  *)
(***************************************************************************)
EXTENDS Naturals, Sequences, FiniteSets, TLC

VARIABLES
    \* ---- classifier harness (SpecClassify) ----
    cstmt,                  \* the statement handed to the classifiers
    cpc,                    \* "input" -> "wild" -> "many"
    cwild,                  \* result of is_action_wildcard(cstmt)
    cmany,                  \* result of is_many_actions(cstmt)
    \* ---- scan driver (Spec): locals of main() ----
    pc,                     \* position in main()
    page,                   \* number of policies of the current page not yet visited
    policy,                 \* the policy being processed
    statements,             \* statements of its document not yet classified
    findings_wildcard,
    findings_many_actions,
    permission_issues,
    output,                 \* what has been printed, in order
    \* ---- history of the API responses (not read by the code) ----
    listed,                 \* the paginator has yielded at least one page
    policiesListed,         \* number of policies listed so far
    apiLog,                 \* one entry per policy visited: how its fetches ended
    scanned                 \* number of statements the inner loop has visited

cvars == <<cstmt, cpc, cwild, cmany>>
svars == <<pc, page, policy, statements, findings_wildcard,
           findings_many_actions, permission_issues, output,
           listed, policiesListed, apiLog, scanned>>
vars == <<cstmt, cpc, cwild, cmany, pc, page, policy, statements,
          findings_wildcard, findings_many_actions, permission_issues, output,
          listed, policiesListed, apiLog, scanned>>

----------------------------------------------------------------------------
(* Bounds of the model *)

MaxResLen == 2        \* longest resource string, in characters
MaxResList == 2       \* longest Resource list
MaxDistinct == 21     \* most distinct non-wildcard actions in an Action list
MaxDup == 10          \* most repeated entries added to an Action list
MaxPolicies == 3      \* most policies the listing returns in one run

----------------------------------------------------------------------------
(* Program constants *)

ACTION_COUNT_THRESHOLD == 20

Wildcard == "*"                 \* the action literal "*"
StarStr == <<42>>               \* the resource literal "*"
ColonStar == <<58, 42>>         \* the substring ":*"

----------------------------------------------------------------------------
(* Strings *)

SeqsUpTo(S, n) == UNION {[1..k -> S] : k \in 0..n}

Range(s) == {s[i] : i \in DOMAIN s}

\* Python's  sub in s  for strings
Contains(s, sub) ==
    \E i \in 1..(Len(s) + 1) :
        /\ i + Len(sub) - 1 <= Len(s)
        /\ SubSeq(s, i, i + Len(sub) - 1) = sub

\* Python's  a < b  for strings: the first differing code point decides, and a
\* proper prefix is smaller
StrLess(a, b) ==
    \E i \in 1..(Len(b)) :
        /\ i <= Len(a) + 1
        /\ \A j \in 1..(i - 1) : a[j] = b[j]
        /\ (i = Len(a) + 1 \/ a[i] < b[i])

----------------------------------------------------------------------------
(* Statements: the dict json gives for one entry of "Statement" *)

AbsentField == [kind |-> "absent", s |-> "", l |-> <<>>]
StrAction(a) == [kind |-> "str", s |-> a, l |-> <<>>]
ListAction(as) == [kind |-> "list", s |-> "", l |-> as]

AbsentResource == [kind |-> "absent", s |-> <<>>, l |-> <<>>]
StrResource(r) == [kind |-> "str", s |-> r, l |-> <<>>]
ListResource(rs) == [kind |-> "list", s |-> <<>>, l |-> rs]

AbsentCondition == [present |-> FALSE, keys |-> {}]
EmptyCondition == [present |-> TRUE, keys |-> {}]
SomeCondition == [present |-> TRUE, keys |-> {"StringEquals"}]

Stmt(e, a, r, c) == [Effect |-> e, Action |-> a, Resource |-> r, Condition |-> c]

\* statement.get("Action", []) followed by
\* actions = [actions] if isinstance(actions, str) else actions
NormActions(statement) ==
    LET a == statement.Action IN
    IF a.kind = "absent" THEN <<>>
    ELSE IF a.kind = "str" THEN <<a.s>>
    ELSE a.l

\* statement.get("Resource", "*") followed by the same wrapping
NormResources(statement) ==
    LET r == statement.Resource IN
    IF r.kind = "absent" THEN <<StarStr>>
    ELSE IF r.kind = "str" THEN <<r.s>>
    ELSE r.l

\* statement.get("Condition", {})
GetCondition(statement) ==
    IF statement.Condition.present THEN statement.Condition.keys ELSE {}

\* is_action_wildcard without  and not condition
is_action_wildcard_no_condition(statement) ==
    IF statement.Effect # "Allow" THEN FALSE
    ELSE LET actions == NormActions(statement) IN
         IF Wildcard \notin Range(actions) THEN FALSE
         ELSE LET resources == NormResources(statement)
              IN \/ StarStr \in Range(resources)
                 \/ \E i \in DOMAIN resources : Contains(resources[i], ColonStar)

\* is_action_wildcard without the test of the resources
is_action_wildcard_any_resource(statement) ==
    IF statement.Effect # "Allow" THEN FALSE
    ELSE LET actions == NormActions(statement) IN
         IF Wildcard \notin Range(actions) THEN FALSE
         ELSE GetCondition(statement) = {}

is_action_wildcard(statement) ==
    IF statement.Effect # "Allow" THEN FALSE
    ELSE LET actions == NormActions(statement) IN
         IF Wildcard \notin Range(actions) THEN FALSE
         ELSE LET resources == NormResources(statement)
                  condition == GetCondition(statement)
              IN /\ \/ StarStr \in Range(resources)
                    \/ \E i \in DOMAIN resources : Contains(resources[i], ColonStar)
                 /\ condition = {}

\* list(set(actions))
UniqueActions(statement) == Range(NormActions(statement))

\* is_many_actions counting the entries, not the distinct ones
is_many_actions_no_dedup(statement) ==
    IF statement.Effect # "Allow" THEN FALSE
    ELSE IF Wildcard \in UniqueActions(statement) THEN FALSE
    ELSE Len(NormActions(statement)) >= ACTION_COUNT_THRESHOLD

\* is_many_actions without  if "*" in unique_actions: return False
is_many_actions_no_star_check(statement) ==
    IF statement.Effect # "Allow" THEN FALSE
    ELSE Cardinality(UniqueActions(statement)) >= ACTION_COUNT_THRESHOLD

is_many_actions(statement) ==
    IF statement.Effect # "Allow" THEN FALSE
    ELSE LET unique_actions == UniqueActions(statement) IN
         IF Wildcard \in unique_actions THEN FALSE
         ELSE Cardinality(unique_actions) >= ACTION_COUNT_THRESHOLD

\* the count without set(): len(stmt["Action"])
ActionCount_no_set(stmt) ==
    IF stmt.Action.kind = "list" THEN Len(stmt.Action.l) ELSE 1

\* len(set(stmt["Action"])) if isinstance(stmt["Action"], list) else 1
\* (evaluated only for a statement is_many_actions accepted)
ActionCount(stmt) ==
    IF stmt.Action.kind = "list" THEN Cardinality(Range(stmt.Action.l)) ELSE 1

----------------------------------------------------------------------------
(* Inputs of the classifiers *)

ResAlphabet == {58, 42}                 \* ":" and "*", the characters the code looks for
ResStrings(maxLen) == SeqsUpTo(ResAlphabet, maxLen)
ResLists(maxLen, maxList) == SeqsUpTo(ResStrings(maxLen), maxList)
ResourceInputs(maxLen, maxList) ==
    {AbsentResource} \cup {StrResource(r) : r \in ResStrings(maxLen)}
                     \cup {ListResource(rs) : rs \in ResLists(maxLen, maxList)}

ActionName(i) == "iam:Action" \o ToString(i)

\* n distinct actions, then d repetitions of them, with "*" nowhere, first or last
MkActions(n, d, star) ==
    LET base == [i \in 1..n |-> ActionName(i)]
        dups == [j \in 1..d |-> ActionName(((j - 1) % n) + 1)]
        body == base \o dups
    IN IF star = "first" THEN <<Wildcard>> \o body
       ELSE IF star = "last" THEN body \o <<Wildcard>>
       ELSE body

ActionLists(maxDistinct, maxDup) ==
    {MkActions(n, d, star) : n \in 1..maxDistinct, d \in 0..maxDup,
                             star \in {"none", "first", "last"}}
    \cup {<<>>, <<Wildcard>>, <<Wildcard, Wildcard>>}
ActionInputs(maxDistinct, maxDup) ==
    {AbsentField, StrAction(Wildcard), StrAction(ActionName(1))}
    \cup {ListAction(as) : as \in ActionLists(maxDistinct, maxDup)}

Effects == {"Allow", "Deny", "None"}     \* "None": the field is absent
Conditions == {AbsentCondition, EmptyCondition, SomeCondition}

\* Every resource shape against the few action shapes that matter to
\* is_action_wildcard, and every action shape against a few resources.
ClassifierInputs(maxLen, maxList, maxDistinct, maxDup) ==
    {Stmt(e, a, r, c) :
        e \in {"Allow", "Deny"},
        a \in {StrAction(Wildcard), StrAction(ActionName(1))},
        r \in ResourceInputs(maxLen, maxList),
        c \in {AbsentCondition, SomeCondition}}
    \cup
    {Stmt(e, a, r, c) :
        e \in Effects,
        a \in ActionInputs(maxDistinct, maxDup),
        r \in {AbsentResource, StrResource(StarStr), StrResource(<<97>>),
               ListResource(<<<<97>>, <<97, 58, 42>>>>)},
        c \in Conditions}

NoStmt == Stmt("None", AbsentField, AbsentResource, AbsentCondition)

----------------------------------------------------------------------------
(* The classifier harness: one statement, each classifier called on it *)

CInit ==
    /\ cstmt \in ClassifierInputs(MaxResLen, MaxResList, MaxDistinct, MaxDup)
    /\ cpc = "input"
    /\ cwild = FALSE
    /\ cmany = FALSE

CIdle ==
    /\ cstmt = NoStmt
    /\ cpc = "idle"
    /\ cwild = FALSE
    /\ cmany = FALSE

CallIsActionWildcard ==
    /\ cpc = "input"
    /\ cwild' = is_action_wildcard(cstmt)
    /\ cpc' = "wild"
    /\ UNCHANGED <<cstmt, cmany>>
    /\ UNCHANGED svars

CallIsManyActions ==
    /\ cpc = "wild"
    /\ cmany' = is_many_actions(cstmt)
    /\ cpc' = "many"
    /\ UNCHANGED <<cstmt, cwild>>
    /\ UNCHANGED svars

----------------------------------------------------------------------------
(* What the IAM API can answer *)

NameP == <<112>>                        \* "p"
NamePQ == <<112, 113>>                  \* "pq"
PolicyNames == {NameP, NamePQ}

ArnPrefix == <<97, 114, 110, 58>>       \* "arn:"
Policy(name) == [PolicyName |-> name, Arn |-> ArnPrefix \o name]
NoPolicy == Policy(<<>>)
\* The listing is paginated and is no snapshot: a policy may be returned on
\* more than one page, so the same record can be visited twice in one run.
Policies == {Policy(n) : n \in PolicyNames}

\* e.response['Error']['Code'] of a ClientError
AccessDenied == <<65, 99, 99, 101, 115, 115, 68, 101, 110, 105, 101, 100>>
NoSuchEntity == <<78, 111, 83, 117, 99, 104, 69, 110, 116, 105, 116, 121>>
ErrorCodes == {AccessDenied, NoSuchEntity}

OpGetPolicy == <<105, 97, 109, 58, 71, 101, 116, 80, 111, 108, 105, 99, 121>>
OpGetPolicyVersion ==
    <<105, 97, 109, 58, 71, 101, 116, 80, 111, 108, 105, 99, 121,
      86, 101, 114, 115, 105, 111, 110>>
OnSep == <<32, 111, 110, 32>>           \* " on "
DashSep == <<32, 8212, 32>>             \* " - " with an em dash

\* f"{op} on {policy_name} - {code}"
FormatIssue(op, name, code) == op \o OnSep \o name \o DashSep \o code

\* Statements the account's documents are made of
Bucket == <<97>>
sWild == Stmt("Allow", StrAction(Wildcard), AbsentResource, AbsentCondition)
sStarCond ==
    Stmt("Allow", ListAction(MkActions(ACTION_COUNT_THRESHOLD, 0, "first")),
         StrResource(StarStr), SomeCondition)
sStarNarrow ==
    Stmt("Allow", ListAction(MkActions(ACTION_COUNT_THRESHOLD, 0, "last")),
         ListResource(<<Bucket>>), EmptyCondition)
sWildMany ==
    Stmt("Allow", ListAction(MkActions(ACTION_COUNT_THRESHOLD, 0, "first")),
         ListResource(<<Bucket, Bucket \o ColonStar>>), EmptyCondition)
sMany ==
    Stmt("Allow", ListAction(MkActions(ACTION_COUNT_THRESHOLD, 0, "none")),
         StrResource(StarStr), AbsentCondition)
sManyDup ==
    Stmt("Allow", ListAction(MkActions(ACTION_COUNT_THRESHOLD + 1, 3, "none")),
         StrResource(Bucket), SomeCondition)
sBelow ==
    Stmt("Allow", ListAction(MkActions(ACTION_COUNT_THRESHOLD - 1, 6, "none")),
         StrResource(StarStr), AbsentCondition)

\* document["Statement"]: absent, one dict, or a list of dicts
AbsentStatement == [kind |-> "absent", one |-> NoStmt, many |-> <<>>]
DictStatement(st) == [kind |-> "dict", one |-> st, many |-> <<>>]
ListStatement(sts) == [kind |-> "list", one |-> NoStmt, many |-> sts]

\* the documents get_policy_version can return, by number
Documents ==
    << DictStatement(sWild),
       ListStatement(<<sMany, sWildMany, sStarCond>>),
       ListStatement(<<sStarNarrow, sBelow, sManyDup>>),
       AbsentStatement >>

\* statements = document.get("Statement", [])
\* if isinstance(statements, dict): statements = [statements]
NormStatements(document) ==
    IF document.kind = "absent" THEN <<>>
    ELSE IF document.kind = "dict" THEN <<document.one>>
    ELSE document.many

----------------------------------------------------------------------------
(* Output *)

\* one printed block; the JSON dump of a finding's statement is not modelled
Event(kind) ==
    [kind |-> kind, count |-> 0, name |-> <<>>, arn |-> <<>>, text |-> <<>>]
CountEvent(kind, n) == [Event(kind) EXCEPT !.count = n]
FindingEvent(kind, f) ==
    [Event(kind) EXCEPT !.name = f.PolicyName, !.arn = f.PolicyArn,
                        !.count = f.ActionCount]
TextEvent(kind, t) == [Event(kind) EXCEPT !.text = t]

WildcardFinding(pol, stmt) ==
    [PolicyName |-> pol.PolicyName, PolicyArn |-> pol.Arn,
     Statement |-> stmt, ActionCount |-> 0]
ManyFinding(pol, stmt) ==
    [PolicyName |-> pol.PolicyName, PolicyArn |-> pol.Arn,
     Statement |-> stmt, ActionCount |-> ActionCount(stmt)]

\* sorted(S) for a set of strings
RECURSIVE Sorted(_)
Sorted(S) ==
    IF S = {} THEN <<>>
    ELSE LET m == CHOOSE x \in S : \A y \in S : y = x \/ StrLess(x, y)
         IN <<m>> \o Sorted(S \ {m})

\* the issues deduplicated but left in the order they were recorded
RECURSIVE FirstOccurrences(_)
FirstOccurrences(issues) ==
    IF issues = <<>> THEN <<>>
    ELSE <<Head(issues)>>
         \o FirstOccurrences(SelectSeq(Tail(issues), LAMBDA x : x # Head(issues)))

IssuesToPrint_no_sort(issues) == FirstOccurrences(issues)

\* sorted(set(permission_issues))
IssuesToPrint(issues) == Sorted(Range(issues))

----------------------------------------------------------------------------
(* The scan driver: main() *)

SIdle ==
    /\ pc = "idle"
    /\ page = 0
    /\ policy = NoPolicy
    /\ statements = <<>>
    /\ findings_wildcard = <<>>
    /\ findings_many_actions = <<>>
    /\ permission_issues = <<>>
    /\ output = <<>>
    /\ listed = FALSE
    /\ policiesListed = 0
    /\ apiLog = <<>>
    /\ scanned = 0

SInit ==
    /\ pc = "start"
    /\ page = 0
    /\ policy = NoPolicy
    /\ statements = <<>>
    /\ findings_wildcard = <<>>
    /\ findings_many_actions = <<>>
    /\ permission_issues = <<>>
    /\ output = <<>>
    /\ listed = FALSE
    /\ policiesListed = 0
    /\ apiLog = <<>>
    /\ scanned = 0

\* the banner printed before the listing starts
Start ==
    /\ pc = "start"
    /\ output' = Append(output, Event("banner"))
    /\ pc' = "list"
    /\ UNCHANGED <<page, policy, statements, findings_wildcard,
                   findings_many_actions, permission_issues,
                   listed, policiesListed, apiLog, scanned>>
    /\ UNCHANGED cvars

\* for policy in page.get("Policies", []): the next policy of the page (its
\* record is read here), or back to the paginator when the page is used up
EnterPage(n) ==
    IF n = 0
    THEN /\ pc' = "list"
         /\ page' = 0
         /\ policy' = policy
    ELSE /\ pc' = "get_policy"
         /\ page' = n - 1
         /\ policy' \in Policies

\* the paginator yields one more page
ListPage ==
    /\ pc = "list"
    /\ \E k \in 0..(MaxPolicies - policiesListed) :
          /\ EnterPage(k)
          /\ policiesListed' = policiesListed + k
    /\ listed' = TRUE
    /\ UNCHANGED <<statements, findings_wildcard, findings_many_actions,
                   permission_issues, output, apiLog, scanned>>
    /\ UNCHANGED cvars

\* the paginator is exhausted: the outer for loop ends
ListEnd ==
    /\ pc = "list"
    /\ listed
    /\ pc' = "report"
    /\ UNCHANGED <<page, policy, statements, findings_wildcard,
                   findings_many_actions, permission_issues, output,
                   listed, policiesListed, apiLog, scanned>>
    /\ UNCHANGED cvars

\* ListFail without the return: the report is printed after the error
ListFail_no_return ==
    /\ pc = "list"
    /\ output' = Append(output, Event("listing_error"))
    /\ pc' = "report"
    /\ UNCHANGED <<page, policy, statements, findings_wildcard,
                   findings_many_actions, permission_issues,
                   listed, policiesListed, apiLog, scanned>>
    /\ UNCHANGED cvars

\* list_policies raises ClientError: the outer except prints and returns
ListFail ==
    /\ pc = "list"
    /\ output' = Append(output, Event("listing_error"))
    /\ pc' = "done"
    /\ UNCHANGED <<page, policy, statements, findings_wildcard,
                   findings_many_actions, permission_issues,
                   listed, policiesListed, apiLog, scanned>>
    /\ UNCHANGED cvars

\* doc: the number of the document returned, 0 when the fetch failed
ApiEntry(pol, outcome, code, doc) ==
    [policy |-> pol, outcome |-> outcome, code |-> code, doc |-> doc]

GetPolicyOk ==
    /\ pc = "get_policy"
    /\ pc' = "get_policy_version"
    /\ UNCHANGED <<page, policy, statements, findings_wildcard,
                   findings_many_actions, permission_issues, output,
                   listed, policiesListed, apiLog, scanned>>
    /\ UNCHANGED cvars

\* get_policy raises ClientError: the except of line 88
GetPolicyFail ==
    /\ pc = "get_policy"
    /\ \E code \in ErrorCodes :
          /\ permission_issues' =
                Append(permission_issues,
                       FormatIssue(OpGetPolicy, policy.PolicyName, code))
          /\ apiLog' = Append(apiLog, ApiEntry(policy, "GetPolicy", code, 0))
    /\ EnterPage(page)
    /\ UNCHANGED <<statements, findings_wildcard, findings_many_actions,
                   output, listed, policiesListed, scanned>>
    /\ UNCHANGED cvars

\* for stmt in statements: the loop is entered, or is over
EnterStatements(sts) ==
    IF sts = <<>>
    THEN /\ statements' = <<>>
         /\ EnterPage(page)
    ELSE /\ statements' = sts
         /\ pc' = "scan"
         /\ UNCHANGED <<page, policy>>

GetPolicyVersionOk ==
    /\ pc = "get_policy_version"
    /\ \E d \in DOMAIN Documents :
          /\ EnterStatements(NormStatements(Documents[d]))
          /\ apiLog' = Append(apiLog, ApiEntry(policy, "ok", <<>>, d))
    /\ UNCHANGED <<findings_wildcard, findings_many_actions, permission_issues,
                   output, listed, policiesListed, scanned>>
    /\ UNCHANGED cvars

\* GetPolicyVersionFail with the except outside the loop over the policies:
\* the issue is recorded and the enumeration ends
GetPolicyVersionFail_ends_scan ==
    /\ pc = "get_policy_version"
    /\ \E code \in ErrorCodes :
          /\ permission_issues' =
                Append(permission_issues,
                       FormatIssue(OpGetPolicyVersion, policy.PolicyName, code))
          /\ apiLog' = Append(apiLog,
                              ApiEntry(policy, "GetPolicyVersion", code, 0))
    /\ pc' = "report"
    /\ page' = 0
    /\ UNCHANGED <<policy, statements, findings_wildcard, findings_many_actions,
                   output, listed, policiesListed, scanned>>
    /\ UNCHANGED cvars

\* get_policy_version raises ClientError: the except of line 85
GetPolicyVersionFail ==
    /\ pc = "get_policy_version"
    /\ \E code \in ErrorCodes :
          /\ permission_issues' =
                Append(permission_issues,
                       FormatIssue(OpGetPolicyVersion, policy.PolicyName, code))
          /\ apiLog' = Append(apiLog,
                              ApiEntry(policy, "GetPolicyVersion", code, 0))
    /\ EnterPage(page)
    /\ UNCHANGED <<statements, findings_wildcard, findings_many_actions,
                   output, listed, policiesListed, scanned>>
    /\ UNCHANGED cvars

\* one iteration of  for stmt in statements  (lines 70-83)
ScanStatement ==
    /\ pc = "scan"
    /\ statements # <<>>
    /\ LET stmt == Head(statements) IN
          /\ IF is_action_wildcard(stmt)
             THEN /\ findings_wildcard' =
                        Append(findings_wildcard, WildcardFinding(policy, stmt))
                  /\ UNCHANGED findings_many_actions
             ELSE IF is_many_actions(stmt)
             THEN /\ findings_many_actions' =
                        Append(findings_many_actions, ManyFinding(policy, stmt))
                  /\ UNCHANGED findings_wildcard
             ELSE UNCHANGED <<findings_wildcard, findings_many_actions>>
    /\ scanned' = scanned + 1
    /\ EnterStatements(Tail(statements))
    /\ UNCHANGED <<permission_issues, output, listed, policiesListed, apiLog>>
    /\ UNCHANGED cvars

\* lines 95-103
WildcardSection(findings) ==
    IF findings # <<>>
    THEN <<CountEvent("wildcard_header", Len(findings))>>
         \o [i \in DOMAIN findings |-> FindingEvent("wildcard_finding", findings[i])]
    ELSE <<Event("wildcard_none")>>

\* lines 105-113
ManySection(findings) ==
    IF findings # <<>>
    THEN <<CountEvent("many_header", Len(findings))>>
         \o [i \in DOMAIN findings |-> FindingEvent("many_finding", findings[i])]
    ELSE <<Event("many_none")>>

\* the permission-issues section with the heading but without the loop
IssuesSection_heading_only(issues) ==
    IF issues # <<>> THEN <<Event("issues_header")>> ELSE <<>>

\* the permission-issues section without  if permission_issues:
IssuesSection_unconditional(issues) ==
    LET lines == IssuesToPrint(issues) IN
    <<Event("issues_header")>> \o [i \in DOMAIN lines |-> TextEvent("issue", lines[i])]

\* lines 115-119
IssuesSection(issues) ==
    IF issues # <<>>
    THEN LET lines == IssuesToPrint(issues) IN
         <<Event("issues_header")>>
         \o [i \in DOMAIN lines |-> TextEvent("issue", lines[i])]
    ELSE <<>>

\* lines 95-121: the report, printed by consecutive statements of main()
PrintReport ==
    /\ pc = "report"
    /\ output' = output \o WildcardSection(findings_wildcard)
                        \o ManySection(findings_many_actions)
                        \o IssuesSection(permission_issues)
                        \o <<Event("complete")>>
    /\ pc' = "done"
    /\ UNCHANGED <<page, policy, statements, findings_wildcard,
                   findings_many_actions, permission_issues,
                   listed, policiesListed, apiLog, scanned>>
    /\ UNCHANGED cvars

ClassifyInit == CInit /\ SIdle
ClassifyNext == CallIsActionWildcard \/ CallIsManyActions
SpecClassify == ClassifyInit /\ [][ClassifyNext]_vars

Init == CIdle /\ SInit
Next ==
    \/ Start
    \/ ListPage
    \/ ListEnd
    \/ ListFail
    \/ GetPolicyOk
    \/ GetPolicyFail
    \/ GetPolicyVersionOk
    \/ GetPolicyVersionFail
    \/ ScanStatement
    \/ PrintReport
Spec == Init /\ [][Next]_vars

----------------------------------------------------------------------------
(* The contracts, as the specification words them *)

HasStar(st) ==
    \/ st.Action.kind = "str" /\ st.Action.s = "*"
    \/ st.Action.kind = "list" /\ \E i \in DOMAIN st.Action.l : st.Action.l[i] = "*"

ResourceIsWild(r) ==
    \/ r = <<42>>
    \/ \E i \in 1..(Len(r) - 1) : r[i] = 58 /\ r[i + 1] = 42

ResourcesWild(st) ==
    \/ st.Resource.kind = "absent"
    \/ st.Resource.kind = "str" /\ ResourceIsWild(st.Resource.s)
    \/ st.Resource.kind = "list"
         /\ \E i \in DOMAIN st.Resource.l : ResourceIsWild(st.Resource.l[i])

Unconditioned(st) == ~st.Condition.present \/ st.Condition.keys = {}

\* the number of distinct action strings: entries with no equal entry before them
DistinctCount(st) ==
    IF st.Action.kind = "absent" THEN 0
    ELSE IF st.Action.kind = "str" THEN 1
    ELSE Cardinality({i \in DOMAIN st.Action.l :
                         \A j \in 1..(i - 1) : st.Action.l[j] # st.Action.l[i]})

WildcardContract(st) ==
    st.Effect = "Allow" /\ HasStar(st) /\ ResourcesWild(st) /\ Unconditioned(st)

ManyContract(st) ==
    st.Effect = "Allow" /\ ~HasStar(st) /\ DistinctCount(st) >= 20

Aborted == \E i \in DOMAIN output : output[i].kind = "listing_error"
Completed == pc = "done" /\ ~Aborted

\* the statements of the document a visit of a policy fetched
StmtsOf(e) ==
    IF e.doc = 0 THEN <<>>
    ELSE LET document == Documents[e.doc] IN
         IF document.kind = "dict" THEN <<document.one>>
         ELSE IF document.kind = "list" THEN document.many
         ELSE <<>>

\* the statements of the documents fetched so far, in the order of the scan
RECURSIVE AllStatements(_)
AllStatements(log) ==
    IF log = <<>> THEN <<>>
    ELSE LET e == Head(log) IN
         [i \in DOMAIN StmtsOf(e) |-> [arn |-> e.policy.Arn, stmt |-> StmtsOf(e)[i]]]
         \o AllStatements(Tail(log))

\* those the inner loop has visited
Visited == SubSeq(AllStatements(apiLog), 1, scanned)

Kinds(kinds) == SelectSeq(output, LAMBDA e : e.kind \in kinds)
Key(f) == <<f.PolicyArn, f.Statement>>

----------------------------------------------------------------------------
(* C1: is_action_wildcard returns true exactly when Effect is Allow, the
   Action field holds the literal "*", the Resource field (defaulting to "*")
   holds "*" or an entry containing ":*", and Condition is absent or empty;
   so a statement with a non-empty Condition is never classified true. *)
C1_WildcardIff ==
    cpc \in {"wild", "many"} =>
        /\ cwild <=> WildcardContract(cstmt)
        /\ (cstmt.Condition.present /\ cstmt.Condition.keys # {}) => ~cwild

C1_Witness ==
    /\ cpc = "many"
    /\ cwild
    /\ cstmt.Resource.kind = "list"
    /\ Len(cstmt.Resource.l) = 2
    /\ <<42>> \notin Range(cstmt.Resource.l)

(* C2: is_many_actions returns true exactly when Effect is Allow, the Action
   field does not hold "*", and the number of distinct action strings is at
   least 20; duplicates do not count. *)
C2_ManyIff ==
    cpc = "many" => (cmany <=> ManyContract(cstmt))

C2_Witness ==
    /\ cpc = "many"
    /\ cmany
    /\ cstmt.Action.kind = "list"
    /\ Len(cstmt.Action.l) = 25
    /\ DistinctCount(cstmt) = 20

(* C3: the finding categories are disjoint: no statement of a policy is in
   both findings lists, every step of the scan appends at most one finding in
   total and only when it visits a statement, and is_many_actions is false
   for every visited statement whose Action holds "*". *)
C3_StateDisjoint ==
    /\ \A i \in DOMAIN findings_wildcard : \A j \in DOMAIN findings_many_actions :
          Key(findings_wildcard[i]) # Key(findings_many_actions[j])
    /\ Len(findings_wildcard) + Len(findings_many_actions) <= scanned
    /\ \A k \in DOMAIN Visited :
          /\ HasStar(Visited[k].stmt) => ~is_many_actions(Visited[k].stmt)
          /\ ~(is_action_wildcard(Visited[k].stmt) /\ is_many_actions(Visited[k].stmt))

C3_StepDisjoint ==
    LET before == Len(findings_wildcard) + Len(findings_many_actions)
        after == Len(findings_wildcard') + Len(findings_many_actions')
    IN /\ after \in {before, before + 1}
       /\ after = before + 1 => scanned' = scanned + 1
       /\ Len(findings_wildcard') >= Len(findings_wildcard)
       /\ Len(findings_many_actions') >= Len(findings_many_actions)

C3_Exclusive == []C3_StateDisjoint /\ [][C3_StepDisjoint]_vars

C3_Witness ==
    /\ pc = "done"
    /\ findings_wildcard # <<>>
    /\ findings_many_actions # <<>>
    /\ \E k \in DOMAIN Visited :
          /\ HasStar(Visited[k].stmt)
          /\ DistinctCount(Visited[k].stmt) > 20
          /\ is_action_wildcard(Visited[k].stmt)

(* C4: when the listing succeeds, every listed policy has been visited; a
   policy whose get-policy or get-policy-version failed contributes no
   finding and exactly one permission issue naming the operation and the
   policy, and every other policy contributes the findings of all its
   statements, which the report prints. *)
RECURSIVE ExpectedWild(_)
ExpectedWild(log) ==
    IF log = <<>> THEN <<>>
    ELSE LET e == Head(log)
             mine == [i \in DOMAIN StmtsOf(e) |->
                         [PolicyName |-> e.policy.PolicyName,
                          PolicyArn |-> e.policy.Arn,
                          Statement |-> StmtsOf(e)[i], ActionCount |-> 0]]
         IN SelectSeq(mine, LAMBDA f : WildcardContract(f.Statement))
            \o ExpectedWild(Tail(log))

RECURSIVE ExpectedMany(_)
ExpectedMany(log) ==
    IF log = <<>> THEN <<>>
    ELSE LET e == Head(log)
             mine == [i \in DOMAIN StmtsOf(e) |->
                         [PolicyName |-> e.policy.PolicyName,
                          PolicyArn |-> e.policy.Arn,
                          Statement |-> StmtsOf(e)[i],
                          ActionCount |-> DistinctCount(StmtsOf(e)[i])]]
         IN SelectSeq(mine, LAMBDA f : ~WildcardContract(f.Statement)
                                        /\ ManyContract(f.Statement))
            \o ExpectedMany(Tail(log))

OpOf(e) == IF e.outcome = "GetPolicy" THEN OpGetPolicy ELSE OpGetPolicyVersion

RECURSIVE ExpectedIssues(_)
ExpectedIssues(log) ==
    IF log = <<>> THEN <<>>
    ELSE LET e == Head(log) IN
         (IF e.outcome = "ok" THEN <<>>
          ELSE <<OpOf(e) \o <<32, 111, 110, 32>> \o e.policy.PolicyName
                         \o <<32, 8212, 32>> \o e.code>>)
         \o ExpectedIssues(Tail(log))

\* what the report shows of a finding: policy name, ARN and action count
Shown(findings) ==
    [i \in DOMAIN findings |->
        <<findings[i].PolicyName, findings[i].PolicyArn, findings[i].ActionCount>>]

PrintedFindings(kind) ==
    LET evs == Kinds({kind}) IN
    [i \in DOMAIN evs |-> <<evs[i].name, evs[i].arn, evs[i].count>>]

C4_LocalRecovery ==
    Completed =>
        /\ Len(apiLog) = policiesListed
        /\ \A i \in DOMAIN apiLog : apiLog[i].outcome # "ok" => apiLog[i].doc = 0
        /\ findings_wildcard = ExpectedWild(apiLog)
        /\ findings_many_actions = ExpectedMany(apiLog)
        /\ permission_issues = ExpectedIssues(apiLog)
        /\ PrintedFindings("wildcard_finding") = Shown(ExpectedWild(apiLog))
        /\ PrintedFindings("many_finding") = Shown(ExpectedMany(apiLog))

C4_Witness ==
    /\ Completed
    /\ Len(apiLog) = 3
    /\ apiLog[1].outcome = "ok" /\ ExpectedWild(<<apiLog[1]>>) # <<>>
    /\ apiLog[2].outcome = "GetPolicyVersion"
    /\ apiLog[3].outcome = "ok" /\ ExpectedMany(<<apiLog[3]>>) # <<>>
    /\ Len(permission_issues) = 1

(* C5: when the listing call fails, on the first page or a later one, the
   run ends at once and prints nothing but the listing error after the
   banner: no findings section, no confirmation line, no permission-issues
   section and no completion marker. *)
C5_AbortPrintsOnlyError ==
    Aborted =>
        /\ pc = "done"
        /\ \A i \in DOMAIN output : output[i].kind \in {"banner", "listing_error"}
        /\ Len(Kinds({"listing_error"})) = 1
        /\ output[Len(output)].kind = "listing_error"

C5_Witness ==
    /\ Aborted
    /\ listed
    /\ findings_wildcard # <<>>
    /\ findings_many_actions # <<>>
    /\ permission_issues # <<>>

(* C6, as claimed: in every finished run, each recorded permission issue has
   been printed, a listing failure on a later page included. *)
IssuePrinted(issue) ==
    \E i \in DOMAIN output : output[i].kind = "issue" /\ output[i].text = issue

C6_AlwaysSurfaced ==
    pc = "done" => \A i \in DOMAIN permission_issues : IssuePrinted(permission_issues[i])

(* C6, amended: in every run whose listing succeeds on every page, each
   recorded permission issue is printed; a run aborted by a listing failure
   prints none of the issues recorded until then. *)
C6_SurfacedUnlessAborted ==
    /\ Completed =>
          \A i \in DOMAIN permission_issues : IssuePrinted(permission_issues[i])
    /\ (pc = "done" /\ Aborted) => Kinds({"issue", "issues_header"}) = <<>>

C6_Witness ==
    /\ Completed
    /\ Len(permission_issues) >= 2
    /\ \A i \in DOMAIN permission_issues : IssuePrinted(permission_issues[i])

(* C7: in a run whose listing succeeds the output is ordered: banner,
   wildcard section, many-actions section, permission-issues section (present
   exactly when an issue was recorded), completion marker; no part of the
   report is printed while policies are still being enumerated, and the
   completion marker is the last event. *)
Rank(kind) ==
    IF kind = "banner" THEN 0
    ELSE IF kind \in {"wildcard_header", "wildcard_finding", "wildcard_none"} THEN 1
    ELSE IF kind \in {"many_header", "many_finding", "many_none"} THEN 2
    ELSE IF kind \in {"issues_header", "issue"} THEN 3
    ELSE 4

ReportKinds ==
    {"wildcard_header", "wildcard_finding", "wildcard_none", "many_header",
     "many_finding", "many_none", "issues_header", "issue", "complete"}

C7_OutputOrder ==
    ~Aborted =>
        /\ \A i \in 1..(Len(output) - 1) :
              /\ Rank(output[i].kind) <= Rank(output[i + 1].kind)
              /\ output[i + 1].kind \in {"wildcard_header", "many_header", "issues_header"}
                    => Rank(output[i].kind) < Rank(output[i + 1].kind)
        /\ Kinds(ReportKinds) # <<>> =>
              /\ pc = "done"
              /\ page = 0
              /\ Len(apiLog) = policiesListed
        /\ Kinds({"complete"}) # <<>> =>
              /\ pc = "done"
              /\ Len(Kinds({"complete"})) = 1
              /\ output[Len(output)].kind = "complete"
        /\ pc = "done" =>
              /\ output[1].kind = "banner"
              /\ Len(Kinds({"wildcard_header", "wildcard_none"})) = 1
              /\ (Kinds({"wildcard_header"}) # <<>>) <=> (findings_wildcard # <<>>)
              /\ Len(Kinds({"wildcard_finding"})) = Len(findings_wildcard)
              /\ Len(Kinds({"many_header", "many_none"})) = 1
              /\ (Kinds({"many_header"}) # <<>>) <=> (findings_many_actions # <<>>)
              /\ Len(Kinds({"many_finding"})) = Len(findings_many_actions)
              /\ Len(Kinds({"issues_header"})) = (IF permission_issues # <<>> THEN 1 ELSE 0)
              /\ (Kinds({"issue"}) # <<>>) <=> (permission_issues # <<>>)
              /\ output[Len(output)].kind = "complete"

C7_Witness ==
    /\ Completed
    /\ findings_wildcard # <<>>
    /\ findings_many_actions = <<>>
    /\ permission_issues # <<>>

(* C8: the permission-issues section prints every distinct issue string
   exactly once, in ascending string order, and issues that differ in
   operation, policy name or error code are printed as different lines. *)
PrintedIssues ==
    LET evs == Kinds({"issue"}) IN [i \in DOMAIN evs |-> evs[i].text]

\* a comes before b in code-point order
RECURSIVE Before(_, _)
Before(a, b) ==
    IF b = <<>> THEN FALSE
    ELSE IF a = <<>> THEN TRUE
    ELSE IF Head(a) # Head(b) THEN Head(a) < Head(b)
    ELSE Before(Tail(a), Tail(b))

FailedCalls ==
    {<<apiLog[i].outcome, apiLog[i].policy.PolicyName, apiLog[i].code>> :
        i \in {k \in DOMAIN apiLog : apiLog[k].outcome # "ok"}}

C8_IssuesDeduplicated ==
    Completed =>
        /\ \A i \in DOMAIN PrintedIssues : \A j \in DOMAIN PrintedIssues :
              i < j => Before(PrintedIssues[i], PrintedIssues[j])
        /\ Range(PrintedIssues) = Range(permission_issues)
        /\ Len(PrintedIssues) = Cardinality(FailedCalls)

C8_Witness ==
    /\ Completed
    /\ Len(permission_issues) = 3
    /\ Len(PrintedIssues) = 2
    /\ permission_issues[1] = permission_issues[3]
    /\ Before(permission_issues[2], permission_issues[1])

(* C9: every many-actions finding carries the number of distinct action
   strings of its statement, which is at least the threshold, and the report
   prints that number. *)
C9_ActionCount ==
    /\ \A i \in DOMAIN findings_many_actions :
          /\ findings_many_actions[i].Statement.Action.kind = "list"
          /\ findings_many_actions[i].ActionCount =
                DistinctCount(findings_many_actions[i].Statement)
          /\ findings_many_actions[i].ActionCount >= 20
    /\ LET evs == Kinds({"many_finding"}) IN
       \A i \in DOMAIN evs :
          evs[i].count = DistinctCount(findings_many_actions[i].Statement)

C9_Witness ==
    /\ pc = "done"
    /\ LET evs == Kinds({"many_finding"}) IN
       \E i \in DOMAIN evs :
          /\ evs[i].count = 21
          /\ Len(findings_many_actions[i].Statement.Action.l) > 21

(* C10: an Allow statement whose Action holds "*" but which is not a
   wildcard finding (non-empty Condition, or no resource that is "*" or
   contains ":*") is flagged in neither category however many actions it
   lists; after a completed scan the flagged statements are exactly the
   visited ones that meet the wildcard contract or that hold no "*" and
   reach the threshold. *)
Flagged ==
    {Key(findings_wildcard[i]) : i \in DOMAIN findings_wildcard}
    \cup {Key(findings_many_actions[i]) : i \in DOMAIN findings_many_actions}

C10_CoverageGap ==
    /\ \A k \in DOMAIN Visited :
          (HasStar(Visited[k].stmt) /\ ~WildcardContract(Visited[k].stmt))
              => <<Visited[k].arn, Visited[k].stmt>> \notin Flagged
    /\ Completed =>
          Flagged = {<<Visited[k].arn, Visited[k].stmt>> :
                        k \in {n \in DOMAIN Visited :
                                  \/ WildcardContract(Visited[n].stmt)
                                  \/ ManyContract(Visited[n].stmt)}}

C10_Witness ==
    /\ Completed
    /\ Flagged # {}
    /\ \E k \in DOMAIN Visited :
          /\ Visited[k].stmt.Effect = "Allow" /\ HasStar(Visited[k].stmt)
          /\ DistinctCount(Visited[k].stmt) > 20
          /\ ~Unconditioned(Visited[k].stmt)
    /\ \E k \in DOMAIN Visited :
          /\ Visited[k].stmt.Effect = "Allow" /\ HasStar(Visited[k].stmt)
          /\ DistinctCount(Visited[k].stmt) > 20
          /\ Unconditioned(Visited[k].stmt) /\ ~ResourcesWild(Visited[k].stmt)

====
